---- MODULE Spec2Model ----
(***************************************************************************)
(* CineMatch (src/movie_randomizer.py): a Streamlit script.  Every user    *)
(* interaction reruns main() from the top with the widgets' current       *)
(* values; st.session_state and the st.cache_data memo survive the reruns. *)
(*                                                                         *)
(* Text is a sequence of pieces.  The pieces "(", ")", "|" and the digits  *)
(* are single characters; any other piece is a run of characters holding   *)
(* none of them.  Ratings are kept in tenths (9.2 is 92).  A DataFrame is  *)
(* the sequence of its rows, a row a record of its columns.                *)
(***************************************************************************)
EXTENDS Integers, Sequences, FiniteSets, TLC

VARIABLES
    KAGGLE_AVAILABLE,  \* module flag set by the import at lines 7-11
    cache,             \* st.cache_data memo of load_kaggle_data: <<>> or <<df>>
    raw,               \* the tables read by the memoized call: <<>> or <<tables>>
    downloads,         \* completed calls of kagglehub.dataset_download
    data_source,       \* the "Data Source" radio
    df,                \* the catalog of the last run
    loaded,            \* how the last run got its catalog
    selected_genre,    \* the "Genre" selectbox
    min_rating,        \* the "Min Rating" slider
    selected_years,    \* the "Year Range" slider, <<lo, hi>>
    filtered_df,       \* the filtered set of the last run
    selected_movie,    \* st.session_state['selected_movie']: <<>> (None) or <<row>>
    notices,           \* the st.success / st.error / st.warning texts of the last run
    outcome,           \* how the last run of main() ended
    clicked,           \* whether the last run was triggered by the randomize button
    prior              \* whether the last randomize run started from a selection

vars == <<KAGGLE_AVAILABLE, cache, raw, downloads, data_source, df, loaded,
          selected_genre, min_rating, selected_years, filtered_df,
          selected_movie, notices, outcome, clicked, prior>>

-----------------------------------------------------------------------------
(* Bounds of the model *)

\* completed downloads followed within one session
MaxDownloads == 2

-----------------------------------------------------------------------------
(* Values *)

\* a missing numeric cell (float NaN)
NaN == -1

\* a missing text cell: read_csv reads an empty field as NaN
NaNStr == <<>>

\* .str.split of a missing cell is missing; a split never yields an empty list
NaNList == <<>>

None == <<>>

ANY == <<"Any">>

Range(s) == {s[i] : i \in 1..Len(s)}

Digits == {"0", "1", "2", "3", "4", "5", "6", "7", "8", "9"}

DigitVal(c) ==
    CASE c = "0" -> 0 [] c = "1" -> 1 [] c = "2" -> 2 [] c = "3" -> 3
      [] c = "4" -> 4 [] c = "5" -> 5 [] c = "6" -> 6 [] c = "7" -> 7
      [] c = "8" -> 8 [] c = "9" -> 9

-----------------------------------------------------------------------------
(* Mock data *)

Movie(t, y, g, r) ==
    [title |-> <<t>>, year |-> y, genres |-> g, avg_rating |-> r, overview |-> "plot"]

MOCK_MOVIES ==
    << Movie("The Dark Knight", 2008, <<"Action", "|", "Crime", "|", "Drama">>, 90),
       Movie("Inception", 2010, <<"Action", "|", "Adventure", "|", "Sci-Fi">>, 88),
       Movie("Interstellar", 2014, <<"Adventure", "|", "Drama", "|", "Sci-Fi">>, 86),
       Movie("Parasite", 2019, <<"Drama", "|", "Thriller">>, 86),
       Movie("Spirited Away", 2001, <<"Animation", "|", "Adventure", "|", "Family">>, 86),
       Movie("Pulp Fiction", 1994, <<"Crime", "|", "Drama">>, 89),
       Movie("The Matrix", 1999, <<"Action", "|", "Sci-Fi">>, 87),
       Movie("Forrest Gump", 1994, <<"Drama", "|", "Romance">>, 88),
       Movie("Everything Everywhere All At Once", 2022,
             <<"Action", "|", "Adventure", "|", "Comedy">>, 80),
       Movie("Dune", 2021, <<"Action", "|", "Adventure", "|", "Sci-Fi">>, 80),
       Movie("The Godfather", 1972, <<"Crime", "|", "Drama">>, 92),
       Movie("Schindler's List", 1993, <<"Biography", "|", "Drama", "|", "History">>, 89),
       Movie("Whiplash", 2014, <<"Drama", "|", "Music">>, 85) >>

-----------------------------------------------------------------------------
(* str.split('|') *)

\* index of the first "|" of s at or after i, or Len(s) + 1
RECURSIVE NextPipe(_, _)
NextPipe(s, i) ==
    IF i > Len(s) THEN Len(s) + 1
    ELSE IF s[i] = "|" THEN i
    ELSE NextPipe(s, i + 1)

RECURSIVE SplitFrom(_, _)
SplitFrom(s, i) ==
    LET j == NextPipe(s, i)
        tag == SubSeq(s, i, j - 1)
    IN  IF j > Len(s) THEN <<tag>> ELSE <<tag>> \o SplitFrom(s, j + 1)

\* a split that stops after the first pipe
SplitOnce(s) ==
    LET j == NextPipe(s, 1)
    IN  IF j > Len(s) THEN <<s>> ELSE <<SubSeq(s, 1, j - 1), SubSeq(s, j + 1, Len(s))>>

Split(s) == SplitFrom(s, 1)

\* Series.str.split: a missing cell stays missing
StrSplit(cell) == IF cell = NaNStr THEN NaNList ELSE Split(cell)

\* load_mock_data: the mock rows with the genres_list column added
MockRow(m) ==
    [title |-> m.title, year |-> m.year, genres |-> m.genres,
     avg_rating |-> m.avg_rating, overview |-> m.overview,
     genres_list |-> StrSplit(m.genres)]

load_mock_data == [i \in 1..Len(MOCK_MOVIES) |-> MockRow(MOCK_MOVIES[i])]

-----------------------------------------------------------------------------
(* The external dataset: movies.csv and ratings.csv as read by read_csv *)

RawMovie(id, t, g) == [movieId |-> id, title |-> t, genres |-> g]

\* movies.csv rows: a plain one, one whose rating is below the slider's lowest
\* value, one with no four-digit year in brackets, one with an empty genres
\* field, one whose genres begin with a pipe, one more to be left without a
\* rating
ToyStory == RawMovie(1, <<"Toy Story ", "(", "1", "9", "9", "5", ")">>,
                        <<"Action", "|", "Comedy">>)

Godfather == RawMovie(2, <<"The Godfather ", "(", "1", "9", "7", "2", ")">>,
                         <<"Crime", "|", "Drama">>)

Heat == RawMovie(3, <<"Heat ", "(", "9", "5", ")">>, <<"Crime">>)

Days == RawMovie(4, <<"(", "5", "0", "0", ")", " Days ", "(", "2", "0", "0", "9", ")">>,
                    NaNStr)

Solaris == RawMovie(5, <<"Solaris ", "(", "1", "9", "7", "2", ")">>, <<"|", "Drama">>)

Alien == RawMovie(6, <<"Alien ", "(", "1", "9", "7", "9", ")">>, <<"Horror">>)

Rating(id, r) == [movieId |-> id, rating |-> r]

Tables(m, r) == [movies |-> m, ratings |-> r]

\* the datasets a download can deliver
RawDatasets ==
    { Tables(<<ToyStory, Godfather, Heat, Solaris, Alien>>,
             <<Rating(1, 40), Rating(2, 5), Rating(1, 45), Rating(3, 30), Rating(5, 30),
               Rating(6, NaN), Rating(7, 20)>>),
      Tables(<<ToyStory, Days, Alien>>,
             <<Rating(4, 35), Rating(1, 50)>>),
      Tables(<<Heat, Solaris>>,
             <<Rating(3, 30), Rating(5, NaN)>>) }

-----------------------------------------------------------------------------
(* load_kaggle_data *)

\* a match of the pattern "(", four digits, ")" starting at piece i
YearAt(t, i) ==
    /\ i + 5 <= Len(t)
    /\ t[i] = "("
    /\ \A k \in 1..4 : t[i + k] \in Digits
    /\ t[i + 5] = ")"

\* str.extract: the digits of the first match, or a missing cell
ExtractYear(t) ==
    IF \E i \in 1..Len(t) : YearAt(t, i)
    THEN LET first == CHOOSE n \in 1..Len(t) :
                          YearAt(t, n) /\ \A j \in 1..(n - 1) : ~YearAt(t, j)
         IN  SubSeq(t, first + 1, first + 4)
    ELSE NaNStr

\* pd.to_numeric(errors='coerce')
ToNumeric(d) ==
    IF d = NaNStr THEN NaN
    ELSE 1000 * DigitVal(d[1]) + 100 * DigitVal(d[2]) + 10 * DigitVal(d[3]) + DigitVal(d[4])

RECURSIVE Sum(_)
Sum(s) == IF s = <<>> THEN 0 ELSE Head(s) + Sum(Tail(s))

\* round to the nearest integer, a tie to the even one
RoundHalfEven(num, den) ==
    LET q == num \div den
        r == num % den
    IN  IF 2 * r < den THEN q
        ELSE IF 2 * r > den THEN q + 1
        ELSE IF q % 2 = 0 THEN q ELSE q + 1

\* groupby('movieId')['rating']: the ratings present for one movieId
RatingsOf(ratings, id) ==
    LET rows == SelectSeq(ratings, LAMBDA x : x.movieId = id /\ x.rating # NaN)
    IN  [i \in 1..Len(rows) |-> rows[i].rating]

\* .mean().round(1): the mean skips missing ratings, and is missing when none is left
AvgRating(ratings, id) ==
    LET rs == RatingsOf(ratings, id)
    IN  IF rs = <<>> THEN NaN ELSE RoundHalfEven(Sum(rs), Len(rs))

\* the movieIds that index avg_ratings
RatedIds(ratings) == {ratings[i].movieId : i \in 1..Len(ratings)}

\* one merged row with the year, avg_rating, genres_list and overview columns
KaggleRow(m, ratings) ==
    [movieId |-> m.movieId, title |-> m.title, genres |-> m.genres,
     year |-> ToNumeric(ExtractYear(m.title)),
     avg_rating |-> AvgRating(ratings, m.movieId),
     genres_list |-> StrSplit(m.genres),
     overview |-> "No plot summary available for this title."]

\* pd.merge(movies, avg_ratings, on='movieId'): an inner join
Merge(movies, ratings) ==
    LET kept == SelectSeq(movies, LAMBDA m : m.movieId \in RatedIds(ratings))
    IN  [i \in 1..Len(kept) |-> KaggleRow(kept[i], ratings)]

\* a dropna that looks at the year alone
DropNaYear(d) == SelectSeq(d, LAMBDA x : x.year # NaN)

\* df.dropna(subset=['year', 'avg_rating'])
DropNa(d) == SelectSeq(d, LAMBDA x : x.year # NaN /\ x.avg_rating # NaN)

\* lines 55-79 on the tables of a downloaded dataset
Normalize(tables) == DropNa(Merge(tables.movies, tables.ratings))

-----------------------------------------------------------------------------
(* main(): the load step, lines 101-112 *)

NoTables == [movies |-> <<>>, ratings |-> <<>>]

\* what one call of load_kaggle_data meets: the download raises (line 52), the
\* files cannot be read or lack a column (lines 55-70), or the tables are read
FetchOutcomes ==
    {[kind |-> k, tables |-> NoTables] : k \in {"download_error", "read_error"}}
        \cup {[kind |-> "ok", tables |-> t] : t \in RawDatasets}

NoFetch == [kind |-> "none", tables |-> NoTables]

\* the body of load_kaggle_data is entered only when the memo is empty
CallsKaggle(src) == src = "Kaggle Dataset" /\ cache = <<>>

Downloads(src, fetch) ==
    CallsKaggle(src) /\ KAGGLE_AVAILABLE /\ fetch.kind \in {"read_error", "ok"}

\* load_kaggle_data raises: ImportError at line 49, or the fetch fails
Raises(src, fetch) ==
    CallsKaggle(src) /\ (~KAGGLE_AVAILABLE \/ fetch.kind # "ok")

\* st.cache_data memoizes a returned value, never an exception
MemoAfter(src, fetch) ==
    IF CallsKaggle(src) /\ ~Raises(src, fetch)
    THEN <<Normalize(fetch.tables)>>
    ELSE cache

RawAfter(src, fetch) ==
    IF CallsKaggle(src) /\ ~Raises(src, fetch) THEN <<fetch.tables>> ELSE raw

\* an except branch that leaves df the empty frame of line 101
FallbackEmpty == <<>>

\* the except branch of line 110: the catalog the caller falls back to
Fallback == load_mock_data

\* df after line 112
Catalog(src, fetch) ==
    IF src = "Demo Data" THEN load_mock_data
    ELSE IF Raises(src, fetch) THEN Fallback
    ELSE MemoAfter(src, fetch)[1]

Loaded(src, fetch) ==
    IF src = "Demo Data" THEN "mock"
    ELSE IF Raises(src, fetch) THEN "fallback"
    ELSE IF cache # <<>> THEN "memo"
    ELSE "fetched"

LoadNotices(src, fetch) ==
    IF src = "Demo Data" THEN {}
    ELSE IF Raises(src, fetch)
         THEN {"Could not load Kaggle data. Switched to Demo Mode."}
         ELSE {"Loaded movies."}

-----------------------------------------------------------------------------
(* main(): the sidebar filters, lines 122-134 *)

\* iterating a missing genres_list raises TypeError at line 123
NoGenresList(d) == \E i \in 1..Len(d) : d[i].genres_list = NaNList

all_genres(d) ==
    UNION {Range(d[i].genres_list) : i \in 1..Len(d)} \ {<<"no genres listed">>}

GenreOptions(d) == {ANY} \cup all_genres(d)

RatingMin == 10

RatingMax == 100

RatingDefault == 70

RatingStep == 5

RatingOptions == {r \in RatingMin..RatingMax : (r - RatingMin) % RatingStep = 0}

SetMin(S) == CHOOSE x \in S : \A y \in S : x <= y

SetMax(S) == CHOOSE x \in S : \A y \in S : x >= y

min_year(d) == SetMin({d[i].year : i \in 1..Len(d)})

max_year(d) == SetMax({d[i].year : i \in 1..Len(d)})

DefaultStartYear == 1980

default_start(d) == SetMax({DefaultStartYear, min_year(d)})

\* the value the year slider is built with
DefaultYears(d) == <<default_start(d), max_year(d)>>

YearOptions(d) == min_year(d)..max_year(d)

\* the values of the controls the user moves to
ProbeRatings == {RatingMin, 90}

ProbeYears(d) == {min_year(d), max_year(d)}

ProbeGenres == {ANY, <<"Crime">>, <<"Comedy">>}

\* a widget keeps its value across reruns while it is built with the same
\* parameters; built anew, it shows its default
SameGenreWidget(d) == outcome = "done" /\ GenreOptions(df) = GenreOptions(d)

SameYearWidget(d) ==
    /\ outcome = "done"
    /\ min_year(df) = min_year(d)
    /\ max_year(df) = max_year(d)

GenreValue(d, req) ==
    IF ~SameGenreWidget(d) THEN ANY
    ELSE IF req # <<>> THEN req[1] ELSE selected_genre

RatingValue(req) ==
    IF outcome # "done" THEN RatingDefault
    ELSE IF req # <<>> THEN req[1] ELSE min_rating

YearsValue(d, req) ==
    IF ~SameYearWidget(d) THEN DefaultYears(d)
    ELSE IF req # <<>> THEN req[1] ELSE selected_years

-----------------------------------------------------------------------------
(* main(): the filter, lines 137-146 *)

RatingOk(x, r) == x.avg_rating >= r

\* a year range that leaves its ends out
InYearsExclusive(x, years) == x.year > years[1] /\ x.year < years[2]

InYears(x, years) == x.year >= years[1] /\ x.year <= years[2]

HasGenre(x, g) == IF x.genres_list # NaNList THEN g \in Range(x.genres_list) ELSE FALSE

Filter(d, g, r, years) ==
    LET first == SelectSeq(d, LAMBDA x : RatingOk(x, r) /\ InYears(x, years))
    IN  IF g # ANY THEN SelectSeq(first, LAMBDA x : HasGenre(x, g)) ELSE first

-----------------------------------------------------------------------------
(* main(): the randomize button, lines 157-163 *)

\* a draw that never repeats the movie shown
SampleFresh(f) ==
    IF Range(f) \ Range(selected_movie) # {}
    THEN Range(f) \ Range(selected_movie)
    ELSE Range(f)

\* the rows filtered_df.sample(1).iloc[0] can return
Sample(f) == Range(f)

\* a button block that keeps the selection when nothing is found
SelectedKeepsOnEmpty(button, f) ==
    IF button /\ f # <<>> THEN {<<m>> : m \in Range(f)} ELSE {selected_movie}

\* a run that drops the selection unless the button was pressed
SelectedResets(button, f) ==
    IF ~button THEN {None}
    ELSE IF f # <<>> THEN {<<m>> : m \in Range(f)}
    ELSE {None}

\* the values session_state['selected_movie'] can take after the button block
Selected(button, f) ==
    IF ~button THEN {selected_movie}
    ELSE IF f # <<>> THEN {<<m>> : m \in Sample(f)}
    ELSE {None}

ButtonNotices(button, f) ==
    IF button /\ f = <<>> THEN {"No movies found!"} ELSE {}

-----------------------------------------------------------------------------
(* One run of main() *)

\* st.stop() at line 115: nothing below the load step runs
Stops(d) == d = <<>>

Halted(d, how) ==
    /\ outcome' = how
    /\ selected_genre' = ANY
    /\ min_rating' = RatingDefault
    /\ selected_years' = <<0, 0>>
    /\ filtered_df' = <<>>
    /\ selected_movie' = selected_movie
    /\ prior' = "n/a"

Rendered(d, gReq, rReq, yReq, button, base) ==
    LET g == GenreValue(d, gReq)
        r == RatingValue(rReq)
        y == YearsValue(d, yReq)
        f == Filter(d, g, r, y)
    IN  /\ outcome' = "done"
        /\ selected_genre' = g
        /\ min_rating' = r
        /\ selected_years' = y
        /\ filtered_df' = f
        /\ selected_movie' \in Selected(button, f)
        /\ notices' = base \cup ButtonNotices(button, f)
        /\ prior' = IF ~button THEN "n/a"
                    ELSE IF selected_movie = None THEN "none"
                    ELSE "some"

Run(src, gReq, rReq, yReq, button, fetch) ==
    LET d == Catalog(src, fetch)
        base == LoadNotices(src, fetch)
    IN  /\ data_source' = src
        /\ cache' = MemoAfter(src, fetch)
        /\ raw' = RawAfter(src, fetch)
        /\ downloads' = IF Downloads(src, fetch) THEN downloads + 1 ELSE downloads
        /\ df' = d
        /\ loaded' = Loaded(src, fetch)
        /\ clicked' = button
        /\ UNCHANGED KAGGLE_AVAILABLE
        /\ IF Stops(d) THEN Halted(d, "stopped") /\ notices' = base
           ELSE IF NoGenresList(d) THEN Halted(d, "error") /\ notices' = base
           ELSE Rendered(d, gReq, rReq, yReq, button, base)

\* the fetches a run with source src can meet
Fetches(src) ==
    IF CallsKaggle(src) /\ KAGGLE_AVAILABLE
    THEN {x \in FetchOutcomes : x.kind = "download_error" \/ downloads < MaxDownloads}
    ELSE {NoFetch}

-----------------------------------------------------------------------------
(* The session *)

Sources == {"Demo Data", "Kaggle Dataset"}

Init ==
    /\ KAGGLE_AVAILABLE \in BOOLEAN
    /\ cache = <<>>
    /\ raw = <<>>
    /\ downloads = 0
    /\ data_source = "Demo Data"
    /\ df = <<>>
    /\ loaded = "none"
    /\ selected_genre = ANY
    /\ min_rating = RatingDefault
    /\ selected_years = <<0, 0>>
    /\ filtered_df = <<>>
    /\ selected_movie = None
    /\ notices = {}
    /\ outcome = "init"
    /\ clicked = FALSE
    /\ prior = "n/a"

\* the first run of the script: the radio's index follows has_kaggle_auth
Start ==
    /\ outcome = "init"
    /\ \E has_kaggle_auth \in BOOLEAN :
         LET src == IF has_kaggle_auth THEN "Kaggle Dataset" ELSE "Demo Data"
         IN  \E fetch \in Fetches(src) : Run(src, <<>>, <<>>, <<>>, FALSE, fetch)

ChooseSource ==
    /\ outcome # "init"
    /\ \E src \in Sources \ {data_source} :
         \E fetch \in Fetches(src) : Run(src, <<>>, <<>>, <<>>, FALSE, fetch)

ChooseGenre ==
    /\ outcome = "done"
    /\ \E g \in (GenreOptions(df) \cap ProbeGenres) \ {selected_genre} :
         \E fetch \in Fetches(data_source) :
            Run(data_source, <<g>>, <<>>, <<>>, FALSE, fetch)

ChooseRating ==
    /\ outcome = "done"
    /\ \E r \in (RatingOptions \cap ProbeRatings) \ {min_rating} :
         \E fetch \in Fetches(data_source) :
            Run(data_source, <<>>, <<r>>, <<>>, FALSE, fetch)

ChooseYears ==
    /\ outcome = "done"
    /\ \E lo \in YearOptions(df) \cap ProbeYears(df) :
         \E hi \in YearOptions(df) \cap ProbeYears(df) :
            /\ lo <= hi
            /\ <<lo, hi>> # selected_years
            /\ \E fetch \in Fetches(data_source) :
                 Run(data_source, <<>>, <<>>, <<<<lo, hi>>>>, FALSE, fetch)

Randomize ==
    /\ outcome = "done"
    /\ \E fetch \in Fetches(data_source) :
         Run(data_source, <<>>, <<>>, <<>>, TRUE, fetch)

Next ==
    \/ Start
    \/ ChooseSource
    \/ ChooseGenre
    \/ ChooseRating
    \/ ChooseYears
    \/ Randomize

Spec == Init /\ [][Next]_vars

-----------------------------------------------------------------------------
(* Properties *)

\* the three predicates of the filter, on the controls' values
Matches(x) ==
    /\ x.avg_rating >= min_rating
    /\ selected_years[1] <= x.year
    /\ x.year <= selected_years[2]
    /\ (selected_genre = ANY \/ selected_genre \in Range(x.genres_list))

\* C1: after a run that reaches the filter, the filtered set holds exactly the
\* catalog rows with avg_rating >= min_rating, year within the inclusive range
\* and, unless the genre is Any, the genre among the row's genre list.
C1_FilterExact ==
    outcome = "done" =>
        /\ \A x \in Range(filtered_df) : x \in Range(df) /\ Matches(x)
        /\ \A x \in Range(df) : Matches(x) => x \in Range(filtered_df)

\* the 1972 row rated 9.2 passes genre Crime and rating 9.0, other rows do not
C1_Witness ==
    /\ outcome = "done"
    /\ selected_genre = <<"Crime">>
    /\ min_rating = 90
    /\ selected_years[1] = 1972
    /\ \E x \in Range(filtered_df) : x.year = 1972 /\ x.avg_rating = 92
    /\ Len(filtered_df) < Len(df)

\* C2: with genre Any, the rating slider at its lowest value and the year
\* slider on the full span of the catalog, the filtered set is the catalog.
C2_NoFilterKeepsAll ==
    ( /\ outcome = "done"
      /\ selected_genre = ANY
      /\ min_rating = RatingMin
      /\ selected_years = <<min_year(df), max_year(df)>> ) => filtered_df = df

\* C3: a randomize run that gets to the filter and finds the filtered set
\* empty leaves no selection, raises the empty-result notice and completes.
C3_EmptyClears ==
    (clicked /\ ~Stops(df) /\ ~NoGenresList(df) /\ filtered_df = <<>>) =>
        /\ selected_movie = None
        /\ "No movies found!" \in notices
        /\ outcome = "done"

\* a randomize run on an empty filtered set that started from a selection
C3_Witness ==
    /\ clicked
    /\ outcome = "done"
    /\ filtered_df = <<>>
    /\ prior = "some"
    /\ selected_movie = None

\* C4: when load_kaggle_data raises, the run goes on with the mock catalog
\* and shows the error notice.
C4_FallbackIsMock ==
    loaded = "fallback" =>
        /\ df = load_mock_data
        /\ "Could not load Kaggle data. Switched to Demo Mode." \in notices
        /\ outcome = "done"

\* the files of a completed download could not be read
C4_Witness ==
    /\ loaded = "fallback"
    /\ KAGGLE_AVAILABLE
    /\ downloads = 1
    /\ cache = <<>>
    /\ df = load_mock_data

\* C5: after a randomize run on a non-empty filtered set the selection is a
\* row of that set, and from every completed run a randomize on the same
\* filtered set can select each of its rows, the one selected now included.
C5_AnyMember ==
    /\ (clicked /\ outcome = "done" /\ filtered_df # <<>>) =>
            selected_movie # None /\ selected_movie[1] \in Range(filtered_df)
    /\ outcome = "done" =>
            \A m \in Range(filtered_df) :
                ENABLED (selected_movie' = <<m>> /\ filtered_df' = filtered_df /\ Randomize)

\* a randomize run that started from a selection and had several rows to pick
C5_Witness ==
    /\ clicked
    /\ outcome = "done"
    /\ prior = "some"
    /\ Len(filtered_df) >= 2
    /\ selected_movie # None
    /\ selected_movie[1] \in Range(filtered_df)

\* C6: the dataset is downloaded at most once in a session.
C6_OneDownload == downloads <= 1

\* C7: no run of main() halts early or ends in an unhandled error.
C7_NeverHalts == outcome \notin {"stopped", "error"}

HasYear(t) == \E i \in 1..Len(t) : YearAt(t, i)

HasRating(ratings, id) ==
    \E i \in 1..Len(ratings) : ratings[i].movieId = id /\ ratings[i].rating # NaN

\* C8: every row of a normalized catalog has a numeric year and a numeric
\* average rating, and a raw row with no year in its title or with no rating
\* is not in the catalog.
C8_YearAndRating ==
    /\ \A x \in Range(load_mock_data) : x.year \in Nat /\ x.avg_rating \in Nat
    /\ cache # <<>> =>
        /\ \A x \in Range(cache[1]) : x.year \in Nat /\ x.avg_rating \in Nat
        /\ \A m \in Range(raw[1].movies) :
              (~HasYear(m.title) \/ ~HasRating(raw[1].ratings, m.movieId)) =>
                  \A x \in Range(cache[1]) : x.movieId # m.movieId

\* a memoized catalog that kept some raw rows and dropped others
C8_Witness ==
    /\ cache # <<>>
    /\ cache[1] # <<>>
    /\ \E m \in Range(raw[1].movies) :
          /\ ~HasYear(m.title)
          /\ \A x \in Range(cache[1]) : x.movieId # m.movieId
    /\ \E m \in Range(raw[1].movies) :
          /\ HasYear(m.title)
          /\ ~HasRating(raw[1].ratings, m.movieId)
          /\ \A x \in Range(cache[1]) : x.movieId # m.movieId

RECURSIVE Join(_)
Join(l) == IF Len(l) = 1 THEN l[1] ELSE l[1] \o <<"|">> \o Join(Tail(l))

Pipes(s) == Cardinality({i \in 1..Len(s) : s[i] = "|"})

Catalogs == {df} \cup Range(cache)

\* C9: the genre list of a row is its genre string cut at every pipe, in
\* order: no tag holds a pipe, there is one tag more than pipes, and the tags
\* joined with pipes give the string back; "Action|Comedy" gives Action, Comedy.
C9_SplitRoundTrip ==
    \A d \in Catalogs : \A x \in Range(d) :
        x.genres # NaNStr =>
            /\ Len(x.genres_list) = Pipes(x.genres) + 1
            /\ \A i \in 1..Len(x.genres_list) : "|" \notin Range(x.genres_list[i])
            /\ Join(x.genres_list) = x.genres
            /\ x.genres = <<"Action", "|", "Comedy">> =>
                   x.genres_list = << <<"Action">>, <<"Comedy">> >>

\* a loaded catalog with an "Action|Comedy" row and a row whose first tag is empty
C9_Witness ==
    /\ loaded = "fetched"
    /\ \E x \in Range(df) :
          x.genres = <<"Action", "|", "Comedy">>
              /\ x.genres_list = << <<"Action">>, <<"Comedy">> >>
    /\ \E x \in Range(df) : x.genres_list = << <<>>, <<"Drama">> >>

\* C10: a run that the randomize button did not trigger leaves
\* session_state['selected_movie'] as it was.
C10_OnlyRandomizeWrites == [][clicked' = FALSE => selected_movie' = selected_movie]_vars

\* after a change of the data source the selection is still shown, though it
\* is no row of the catalog now loaded
C10_Witness ==
    /\ ~clicked
    /\ outcome = "done"
    /\ selected_movie # None
    /\ selected_movie[1] \notin Range(df)

====
